---- MODULE Spec2Model ----
(***************************************************************************)
(* Model of src/script_entry_list.rs: the SIR0 "script entry list" codec.  *)
(* ScriptEntryList::write_to_file is modelled statement group by statement *)
(* group on a seekable byte stream (file, pos); ScriptEntryList::          *)
(* new_from_file then decodes that stream.  Strings are sequences of       *)
(* Unicode scalar values, the stream is a sequence of bytes 0..255.        *)
(***************************************************************************)
EXTENDS Integers, Sequences, FiniteSets, TLC

VARIABLES
    entries,                    \* self.entries, the list being encoded
    file,                       \* the stream's bytes
    pos,                        \* the stream's position
    pc,                         \* position in write_to_file / new_from_file
    i,                          \* index of the running for loop
    sir0_pointers,              \* Vec<u32> handed to write_sir0_footer
    list_of_entries_pointer,
    flags_pointer,
    utf16_string_to_write_set,
    utf8_string_to_write_set,
    utf16_string_map,           \* set of <<string, offset>> pairs
    utf8_string_map,
    sir0_list_pointer,
    entries_pointer,
    sir0_list_padded,
    pool_writes,                \* history: <<kind, string, offset>> per pool write
    placeholders,               \* history: offsets written as bytes to be overwritten
    last_write,                 \* history: offsets the latest write_all calls wrote
    corrupted,                  \* the stream was damaged between encode and decode
    pointer_content_data,       \* new_from_file locals
    entry_count,
    pointer_entry_list,
    all_pointer_entry,
    read_entries,               \* `entries` of new_from_file
    result,                     \* <<"Pending">>, <<"Ok", list>> or <<error kind, ...>>
    nops,                       \* seek and read_exact calls made by new_from_file
    overrun                     \* history: a read_exact ran past the end of the stream

encvars == <<entries, i, sir0_pointers, list_of_entries_pointer, flags_pointer,
             utf16_string_to_write_set, utf8_string_to_write_set, utf16_string_map,
             utf8_string_map, sir0_list_pointer, entries_pointer, sir0_list_padded,
             pool_writes, placeholders>>

decvars == <<pointer_content_data, entry_count, pointer_entry_list, all_pointer_entry,
             read_entries, result, nops, overrun>>

vars == <<file, pos, pc, corrupted, last_write, encvars, decvars>>

(***************************************************************************)
(* Bounds of the model.                                                    *)
(***************************************************************************)
MaxEntries == 2
MaxDamagedEntries == 2
MaxFooterSlack == 1

(***************************************************************************)
(* Integers and bytes.                                                     *)
(***************************************************************************)
Max(a, b) == IF a > b THEN a ELSE b

\* u32::to_le_bytes(v as u32)
LE32(v) == <<v % 256, (v \div 256) % 256, (v \div 65536) % 256, (v \div 16777216) % 256>>

\* u32::from_le_bytes.  A value of 2^31 or more is held as 2^31 - 1: like it, it
\* lies beyond the end of every stream of the model.
FromLE32(b) == IF b[4] >= 128 THEN 2147483647
               ELSE b[1] + (256 * b[2]) + (65536 * b[3]) + (16777216 * b[4])

\* u16::to_le_bytes
LE16(u) == <<u % 256, u \div 256>>

\* u16::from_le_bytes
FromLE16(b) == b[1] + (256 * b[2])

RECURSIVE Flatten(_)
Flatten(ss) == IF ss = <<>> THEN <<>> ELSE Head(ss) \o Flatten(Tail(ss))

Zeros(n) == [k \in 1..n |-> 0]

\* str::as_bytes of one scalar value: its UTF-8 encoding
Utf8OfChar(c) ==
    IF c < 128 THEN <<c>>
    ELSE IF c < 2048 THEN <<192 + (c \div 64), 128 + (c % 64)>>
    ELSE IF c < 65536
         THEN <<224 + (c \div 4096), 128 + ((c \div 64) % 64), 128 + (c % 64)>>
    ELSE <<240 + (c \div 262144), 128 + ((c \div 4096) % 64),
           128 + ((c \div 64) % 64), 128 + (c % 64)>>

\* string.as_bytes()
AsBytes(s) == Flatten([k \in 1..Len(s) |-> Utf8OfChar(s[k])])

\* str::encode_utf16 of one scalar value
Utf16OfChar(c) ==
    IF c < 65536 THEN <<c>>
    ELSE <<55296 + ((c - 65536) \div 1024), 56320 + ((c - 65536) % 1024)>>

encode_utf16(s) == Flatten([k \in 1..Len(s) |-> Utf16OfChar(s[k])])

\* Mutant: the code units stored high byte first.
string_to_utf16_big_endian(s) ==
    LET units == encode_utf16(s)
    IN  Flatten([k \in 1..Len(units) |-> <<units[k] \div 256, units[k] % 256>>])

string_to_utf16(s) ==
    LET units == encode_utf16(s)
    IN  Flatten([k \in 1..Len(units) |-> LE16(units[k])])

(***************************************************************************)
(* The stream: Write::write_all at a position, as Cursor<Vec<u8>> and File *)
(* do it: bytes inside the stream are overwritten, the stream grows as     *)
(* needed and a gap is zero-filled.                                        *)
(***************************************************************************)
WriteAt(f, p, bs) ==
    [k \in 1..Max(Len(f), p + Len(bs)) |->
        IF k > p /\ k <= p + Len(bs) THEN bs[k - p]
        ELSE IF k <= Len(f) THEN f[k] ELSE 0]

\* The offsets of the n bytes from p on.
Offsets(p, n) == {p + k : k \in 0..(n - 1)}

\* Mutant: every position taken after its field was written.
FieldPositionsAfterWrite(p, n) == [k \in 1..n |-> p + (4 * k)]

\* The positions of the n u32 fields written one after another from p.
FieldPositions(p, n) == [k \in 1..n |-> p + (4 * (k - 1))]

\* The u32 stored at offset p of f.
U32At(f, p) == FromLE32(SubSeq(f, p + 1, p + 4))

(***************************************************************************)
(* Inputs: the entries a list is drawn from.                               *)
(***************************************************************************)
Entry(en, mn, lp, pp, fl) ==
    [entity_name |-> en, map_name |-> mn, lua_path |-> lp, plb_path |-> pp, flags |-> fl]

EntryChoices ==
    { Entry(<<65>>, <<65, 66>>, <<65>>, <<12354, 66>>, <<0, 0, 0, 0>>),
      Entry(<<65, 66>>, <<65, 66>>, <<65>>, <<65, 66, 67>>, <<0, 0, 0, 0>>),
      Entry(<<67, 68, 69>>, <<65>>, <<65, 66>>, <<65, 66>>, <<1, 258, 16909060, 2139062143>>),
      Entry(<<233>>, <<65>>, <<65>>, <<65, 66>>, <<0, 0, 0, 0>>),
      Entry(<<65>>, <<65>>, <<128512>>, <<65>>, <<7, 0, 0, 0>>) }

EntryLists == UNION { [1..n -> EntryChoices] : n \in 0..MaxEntries }

\* The lists whose encoding is damaged before it is decoded.
DamagedChoices ==
    { Entry(<<65>>, <<65, 66>>, <<65>>, <<12354, 66>>, <<0, 0, 0, 0>>),
      Entry(<<65, 66>>, <<65, 66>>, <<65>>, <<65, 66, 67>>, <<0, 0, 0, 0>>) }

DamagedLists == UNION { [1..n -> DamagedChoices] : n \in 0..MaxDamagedEntries }

InitFrom(lists) ==
    /\ entries \in lists
    /\ file = <<>>
    /\ pos = 0
    /\ pc = "start"
    /\ i = 0
    /\ sir0_pointers = <<>>
    /\ list_of_entries_pointer = 0
    /\ flags_pointer = <<>>
    /\ utf16_string_to_write_set = {}
    /\ utf8_string_to_write_set = {}
    /\ utf16_string_map = {}
    /\ utf8_string_map = {}
    /\ sir0_list_pointer = 0
    /\ entries_pointer = <<>>
    /\ sir0_list_padded = 0
    /\ pool_writes = <<>>
    /\ placeholders = {}
    /\ last_write = {}
    /\ corrupted = FALSE
    /\ pointer_content_data = 0
    /\ entry_count = 0
    /\ pointer_entry_list = 0
    /\ all_pointer_entry = <<>>
    /\ read_entries = <<>>
    /\ result = <<"Pending">>
    /\ nops = 0
    /\ overrun = FALSE

Init == InitFrom(EntryLists)

InitDamaged == InitFrom(DamagedLists)

(***************************************************************************)
(* write_to_file                                                           *)
(***************************************************************************)
Magic == <<83, 73, 82, 48>>     \* b"SIR0"

ContentDataPointer == 16
EntryTablePointer == 24

\* lines 147-167: the container header and the content header
HeaderBytes(n) ==
    Magic \o LE32(ContentDataPointer) \o Zeros(4) \o Zeros(4) \o LE32(n)
          \o LE32(EntryTablePointer)

WriteHeader ==
    /\ pc = "start"
    /\ file' = WriteAt(file, pos, HeaderBytes(Len(entries)))
    /\ last_write' = Offsets(pos, 24)
    /\ pos' = pos + 24
    /\ sir0_pointers' = <<pos + 4, pos + 8, pos + 20>>
    /\ placeholders' = {pos + 8 + k : k \in 0..3}
    /\ i' = 0
    /\ pc' = "slots"
    /\ UNCHANGED <<entries, list_of_entries_pointer, flags_pointer,
                   utf16_string_to_write_set, utf8_string_to_write_set,
                   utf16_string_map, utf8_string_map, sir0_list_pointer,
                   entries_pointer, sir0_list_padded, pool_writes, corrupted, decvars>>

\* lines 173-176: one placeholder slot of the entry-pointer table
WritePointerSlot ==
    /\ pc = "slots"
    /\ i < Len(entries)
    /\ sir0_pointers' = Append(sir0_pointers, pos)
    /\ file' = WriteAt(file, pos, Zeros(4))
    /\ last_write' = Offsets(pos, 4)
    /\ placeholders' = placeholders \cup {pos + k : k \in 0..3}
    /\ pos' = pos + 4
    /\ i' = i + 1
    /\ UNCHANGED <<entries, pc, list_of_entries_pointer, flags_pointer,
                   utf16_string_to_write_set, utf8_string_to_write_set,
                   utf16_string_map, utf8_string_map, sir0_list_pointer,
                   entries_pointer, sir0_list_padded, pool_writes, corrupted, decvars>>

\* line 179
RememberEntries ==
    /\ pc = "slots"
    /\ UNCHANGED last_write
    /\ i = Len(entries)
    /\ list_of_entries_pointer' = pos
    /\ i' = 0
    /\ pc' = "records"
    /\ UNCHANGED <<entries, file, pos, sir0_pointers, flags_pointer,
                   utf16_string_to_write_set, utf8_string_to_write_set,
                   utf16_string_map, utf8_string_map, sir0_list_pointer,
                   entries_pointer, sir0_list_padded, pool_writes, placeholders,
                   corrupted, decvars>>

\* lines 180-191: one placeholder entry record of five u32 fields
WriteEntryPlaceholder ==
    /\ pc = "records"
    /\ i < Len(entries)
    /\ sir0_pointers' = sir0_pointers \o FieldPositions(pos, 5)
    /\ file' = WriteAt(file, pos, Zeros(20))
    /\ last_write' = Offsets(pos, 20)
    /\ placeholders' = placeholders \cup {pos + k : k \in 0..19}
    /\ pos' = pos + 20
    /\ i' = i + 1
    /\ UNCHANGED <<entries, pc, list_of_entries_pointer, flags_pointer,
                   utf16_string_to_write_set, utf8_string_to_write_set,
                   utf16_string_map, utf8_string_map, sir0_list_pointer,
                   entries_pointer, sir0_list_padded, pool_writes, corrupted, decvars>>

\* line 195
StartFlags ==
    /\ pc = "records"
    /\ UNCHANGED last_write
    /\ i = Len(entries)
    /\ flags_pointer' = <<>>
    /\ i' = 0
    /\ pc' = "flags"
    /\ UNCHANGED <<entries, file, pos, sir0_pointers, list_of_entries_pointer,
                   utf16_string_to_write_set, utf8_string_to_write_set,
                   utf16_string_map, utf8_string_map, sir0_list_pointer,
                   entries_pointer, sir0_list_padded, pool_writes, placeholders,
                   corrupted, decvars>>

FlagsBytes(entry) == Flatten([k \in 1..4 |-> LE32(entry.flags[k])])

\* lines 196-201: the flags block of one entry
WriteFlags ==
    /\ pc = "flags"
    /\ i < Len(entries)
    /\ flags_pointer' = Append(flags_pointer, pos)
    /\ file' = WriteAt(file, pos, FlagsBytes(entries[i + 1]))
    /\ last_write' = Offsets(pos, 16)
    /\ pos' = pos + 16
    /\ i' = i + 1
    /\ UNCHANGED <<entries, pc, sir0_pointers, list_of_entries_pointer,
                   utf16_string_to_write_set, utf8_string_to_write_set,
                   utf16_string_map, utf8_string_map, sir0_list_pointer,
                   entries_pointer, sir0_list_padded, pool_writes, placeholders,
                   corrupted, decvars>>

Utf16Strings(es) == {es[k].lua_path : k \in 1..Len(es)} \cup {es[k].plb_path : k \in 1..Len(es)}
Utf8Strings(es) == {es[k].entity_name : k \in 1..Len(es)} \cup {es[k].map_name : k \in 1..Len(es)}

\* lines 204-213, 222: the two sets of distinct strings, the two empty maps
CollectStrings ==
    /\ pc = "flags"
    /\ UNCHANGED last_write
    /\ i = Len(entries)
    /\ utf16_string_to_write_set' = Utf16Strings(entries)
    /\ utf8_string_to_write_set' = Utf8Strings(entries)
    /\ utf16_string_map' = {}
    /\ utf8_string_map' = {}
    /\ pc' = "strings"
    /\ UNCHANGED <<entries, file, pos, i, sir0_pointers, list_of_entries_pointer,
                   flags_pointer, sir0_list_pointer, entries_pointer, sir0_list_padded,
                   pool_writes, placeholders, corrupted, decvars>>

\* Mutant: a narrow string stored without its terminator.
Utf8StoredUnterminated(s) == AsBytes(s)

Utf16Stored(s) == string_to_utf16(s) \o Zeros(2)
Utf8Stored(s) == AsBytes(s) \o Zeros(1)

\* lines 214-219: the HashSet yields its strings in an order of its own
WriteUtf16String ==
    /\ pc = "strings"
    /\ \E s \in utf16_string_to_write_set :
         /\ file' = WriteAt(file, pos, Utf16Stored(s))
         /\ last_write' = Offsets(pos, Len(Utf16Stored(s)))
         /\ pos' = pos + Len(Utf16Stored(s))
         /\ utf16_string_map' = {m \in utf16_string_map : m[1] # s} \cup {<<s, pos>>}
         /\ utf16_string_to_write_set' = utf16_string_to_write_set \ {s}
         /\ pool_writes' = Append(pool_writes, <<"utf16", s, pos>>)
    /\ UNCHANGED <<entries, pc, i, sir0_pointers, list_of_entries_pointer, flags_pointer,
                   utf8_string_to_write_set, utf8_string_map, sir0_list_pointer,
                   entries_pointer, sir0_list_padded, placeholders, corrupted, decvars>>

\* lines 223-228
WriteUtf8String ==
    /\ pc = "strings"
    /\ utf16_string_to_write_set = {}
    /\ \E s \in utf8_string_to_write_set :
         /\ file' = WriteAt(file, pos, Utf8Stored(s))
         /\ last_write' = Offsets(pos, Len(Utf8Stored(s)))
         /\ pos' = pos + Len(Utf8Stored(s))
         /\ utf8_string_map' = {m \in utf8_string_map : m[1] # s} \cup {<<s, pos>>}
         /\ utf8_string_to_write_set' = utf8_string_to_write_set \ {s}
         /\ pool_writes' = Append(pool_writes, <<"utf8", s, pos>>)
    /\ UNCHANGED <<entries, pc, i, sir0_pointers, list_of_entries_pointer, flags_pointer,
                   utf16_string_to_write_set, utf16_string_map, sir0_list_pointer,
                   entries_pointer, sir0_list_padded, placeholders, corrupted, decvars>>

\* lines 230-234: remember the end of the pool, go back to the entry records
MarkEndOfPool ==
    /\ pc = "strings"
    /\ UNCHANGED last_write
    /\ utf16_string_to_write_set = {}
    /\ utf8_string_to_write_set = {}
    /\ sir0_list_pointer' = pos
    /\ pos' = list_of_entries_pointer
    /\ entries_pointer' = <<>>
    /\ i' = 0
    /\ pc' = "patch_entries"
    /\ UNCHANGED <<entries, file, sir0_pointers, list_of_entries_pointer, flags_pointer,
                   utf16_string_to_write_set, utf8_string_to_write_set, utf16_string_map,
                   utf8_string_map, sir0_list_padded, pool_writes, placeholders,
                   corrupted, decvars>>

\* map[&key]
Lookup(map, key) == (CHOOSE m \in map : m[1] = key)[2]

\* Mutant: entries with equal flags share the block of the first of them.
FlagsPointerShared(entryid) ==
    flags_pointer[CHOOSE k \in 1..Len(entries) :
                      /\ entries[k].flags = entries[entryid + 1].flags
                      /\ \A l \in 1..(k - 1) : entries[l].flags # entries[k].flags]

\* line 241: flags_pointer[entryid]
FlagsPointerOf(entryid) == flags_pointer[entryid + 1]

\* lines 237-241: the five pointer fields of entry number entryid
EntryRecordBytes(entry, entryid) ==
    LE32(Lookup(utf8_string_map, entry.entity_name))
      \o LE32(Lookup(utf8_string_map, entry.map_name))
      \o LE32(Lookup(utf16_string_map, entry.lua_path))
      \o LE32(Lookup(utf16_string_map, entry.plb_path))
      \o LE32(FlagsPointerOf(entryid))

\* lines 235-242: one entry record
PatchEntry ==
    /\ pc = "patch_entries"
    /\ i < Len(entries)
    /\ entries_pointer' = Append(entries_pointer, pos)
    /\ file' = WriteAt(file, pos, EntryRecordBytes(entries[i + 1], i))
    /\ last_write' = Offsets(pos, 20)
    /\ pos' = pos + 20
    /\ i' = i + 1
    /\ UNCHANGED <<entries, pc, sir0_pointers, list_of_entries_pointer, flags_pointer,
                   utf16_string_to_write_set, utf8_string_to_write_set, utf16_string_map,
                   utf8_string_map, sir0_list_pointer, sir0_list_padded, pool_writes,
                   placeholders, corrupted, decvars>>

\* Mutant: the table rewritten one field too early.
EntryTableSeekEarly == 24 - 4

\* line 245: file.seek(SeekFrom::Start(24))
EntryTableSeek == 24

\* lines 245-248: the entry-pointer table
PatchTable ==
    /\ pc = "patch_entries"
    /\ i = Len(entries)
    /\ LET bytes == Flatten([k \in 1..Len(entries_pointer) |-> LE32(entries_pointer[k])])
       IN  /\ file' = WriteAt(file, EntryTableSeek, bytes)
           /\ last_write' = Offsets(EntryTableSeek, Len(bytes))
           /\ pos' = EntryTableSeek + Len(bytes)
    /\ pc' = "seek_end"
    /\ UNCHANGED <<entries, i, sir0_pointers, list_of_entries_pointer, flags_pointer,
                   utf16_string_to_write_set, utf8_string_to_write_set, utf16_string_map,
                   utf8_string_map, sir0_list_pointer, entries_pointer, sir0_list_padded,
                   pool_writes, placeholders, corrupted, decvars>>

\* line 253
SeekEnd ==
    /\ pc = "seek_end"
    /\ UNCHANGED last_write
    /\ pos' = sir0_list_pointer
    /\ pc' = "pad"
    /\ UNCHANGED <<file, corrupted, encvars, decvars>>

\* Mutant: padding to a multiple of 2.
NeedsPaddingToEven(p) == p % 2 # 0

\* line 256: the condition of the padding loop
NeedsPadding(p) == p % 4 # 0

\* lines 256-258: one padding byte
WritePadding ==
    /\ pc = "pad"
    /\ NeedsPadding(pos)
    /\ file' = WriteAt(file, pos, Zeros(1))
    /\ last_write' = Offsets(pos, 1)
    /\ pos' = pos + 1
    /\ UNCHANGED <<pc, corrupted, encvars, decvars>>

\* line 263: write_sir0_footer of the pmd_sir0 crate.  Its wire format is not part
\* of this program: it appends at least one byte for every location it is given.
FooterLengths(pointers) == Len(pointers)..(Len(pointers) + MaxFooterSlack)
FooterFill == {4}

\* lines 260-263
WriteFooter ==
    /\ pc = "pad"
    /\ ~NeedsPadding(pos)
    /\ sir0_list_padded' = pos
    /\ \E n \in FooterLengths(sir0_pointers), b \in FooterFill :
         /\ file' = WriteAt(file, pos, [k \in 1..n |-> b])
         /\ last_write' = Offsets(pos, n)
         /\ pos' = pos + n
    /\ pc' = "patch_header"
    /\ UNCHANGED <<entries, i, sir0_pointers, list_of_entries_pointer, flags_pointer,
                   utf16_string_to_write_set, utf8_string_to_write_set, utf16_string_map,
                   utf8_string_map, sir0_list_pointer, entries_pointer, pool_writes,
                   placeholders, corrupted, decvars>>

\* line 266: file.seek(SeekFrom::Start(8))
HeaderPatchSeek == 8

\* Mutant: the end of the string pool, before the padding.
HeaderPatchValueUnpadded == sir0_list_pointer

\* Mutant: the position after the footer was written.
HeaderPatchValueAfterFooter == pos

\* line 267: the value written there
HeaderPatchValue == sir0_list_padded

\* lines 266-268
PatchHeader ==
    /\ pc = "patch_header"
    /\ file' = WriteAt(file, HeaderPatchSeek, LE32(HeaderPatchValue))
    /\ last_write' = Offsets(HeaderPatchSeek, 4)
    /\ pos' = HeaderPatchSeek + 4
    /\ pc' = "encoded"
    /\ UNCHANGED <<corrupted, encvars, decvars>>

(***************************************************************************)
(* The stream between the two calls.  In the specification SpecDamaged the *)
(* encoded stream may be cut short or have one byte replaced before it is  *)
(* decoded, which yields the corrupt inputs new_from_file has to reject.   *)
(***************************************************************************)
DamageBytes == {0, 127, 255}

Truncate ==
    /\ pc = "encoded"
    /\ UNCHANGED last_write
    /\ ~corrupted
    /\ \E n \in 0..(Len(file) - 1) : file' = SubSeq(file, 1, n)
    /\ corrupted' = TRUE
    /\ UNCHANGED <<pos, pc, encvars, decvars>>

Poke ==
    /\ pc = "encoded"
    /\ UNCHANGED last_write
    /\ ~corrupted
    /\ \E k \in 1..Len(file), b \in DamageBytes :
         /\ file[k] # b
         /\ file' = [file EXCEPT ![k] = b]
    /\ corrupted' = TRUE
    /\ UNCHANGED <<pos, pc, encvars, decvars>>

(***************************************************************************)
(* Reading.  Every operator returns what the call returned and the number  *)
(* of seek and read_exact calls it made on the stream (ops); eof tells     *)
(* that a read_exact asked for bytes past the end of the stream.           *)
(***************************************************************************)
Available(f, p) == IF p >= Len(f) THEN 0 ELSE Len(f) - p

\* lines 33-37: n calls of read_u32 one after another from position p
ReadU32s(f, p, n) ==
    IF 4 * n <= Available(f, p)
    THEN [ok |-> TRUE, vals |-> [k \in 1..n |-> U32At(f, p + (4 * (k - 1)))],
          pos |-> p + (4 * n), ops |-> n, eof |-> FALSE]
    ELSE [ok |-> FALSE, vals |-> <<>>, pos |-> p,
          ops |-> (Available(f, p) \div 4) + 1, eof |-> TRUE]

\* String::from_utf8 of a single byte succeeds on an ASCII byte only
ValidUtf8Byte(b) == b < 128

\* lines 43-49
RECURSIVE Utf8Loop(_, _, _)
Utf8Loop(f, p, acc) ==
    IF Available(f, p) < 1
    THEN [kind |-> "IOError", string |-> acc, pos |-> p, ops |-> Len(acc) + 1, eof |-> TRUE]
    ELSE IF f[p + 1] = 0
    THEN [kind |-> "Ok", string |-> acc, pos |-> p + 1, ops |-> Len(acc) + 1, eof |-> FALSE]
    ELSE IF ~ValidUtf8Byte(f[p + 1])
    THEN [kind |-> "FromUtf8Error", string |-> acc, pos |-> p + 1, ops |-> Len(acc) + 1,
          eof |-> FALSE]
    ELSE Utf8Loop(f, p + 1, Append(acc, f[p + 1]))

\* lines 39-50
read_referenced_utf8_string(f, reference) ==
    LET r == Utf8Loop(f, reference, <<>>) IN [r EXCEPT !.ops = @ + 1]

\* String::from_utf16 of a single code unit fails on a surrogate
ValidUtf16Unit(u) == u < 55296 \/ u > 57343

\* lines 56-63
RECURSIVE Utf16Loop(_, _, _)
Utf16Loop(f, p, acc) ==
    IF Available(f, p) < 2
    THEN [kind |-> "IOError", string |-> acc, pos |-> p, ops |-> Len(acc) + 1, eof |-> TRUE]
    ELSE LET charid == FromLE16(SubSeq(f, p + 1, p + 2))
         IN  IF charid = 0
             THEN [kind |-> "Ok", string |-> acc, pos |-> p + 2, ops |-> Len(acc) + 1,
                   eof |-> FALSE]
             ELSE IF ~ValidUtf16Unit(charid)
             THEN [kind |-> "FromUtf16Error", string |-> acc, pos |-> p + 2,
                   ops |-> Len(acc) + 1, eof |-> FALSE]
             ELSE Utf16Loop(f, p + 2, Append(acc, charid))

\* lines 52-64
read_referenced_utf16_string(f, reference) ==
    LET r == Utf16Loop(f, reference, <<>>) IN [r EXCEPT !.ops = @ + 1]

NoEntry == Entry(<<>>, <<>>, <<>>, <<>>, <<0, 0, 0, 0>>)

EntryFailure(kind, ops, eof) == [kind |-> kind, entry |-> NoEntry, ops |-> ops, eof |-> eof]

\* lines 112-138: one entry, read through its record at pointer_entry
ReadEntry(f, pointer_entry) ==
    LET rec == ReadU32s(f, pointer_entry, 5)
    IN  IF ~rec.ok THEN EntryFailure("IOError", 1 + rec.ops, rec.eof) ELSE
    LET entity_name == read_referenced_utf8_string(f, rec.vals[1])
        ops1 == 1 + rec.ops + entity_name.ops
    IN  IF entity_name.kind # "Ok"
        THEN EntryFailure(entity_name.kind, ops1, entity_name.eof) ELSE
    LET map_name == read_referenced_utf8_string(f, rec.vals[2])
        ops2 == ops1 + map_name.ops
    IN  IF map_name.kind # "Ok"
        THEN EntryFailure(map_name.kind, ops2, map_name.eof) ELSE
    LET lua_path == read_referenced_utf16_string(f, rec.vals[3])
        ops3 == ops2 + lua_path.ops
    IN  IF lua_path.kind # "Ok"
        THEN EntryFailure(lua_path.kind, ops3, lua_path.eof) ELSE
    LET plb_path == read_referenced_utf16_string(f, rec.vals[4])
        ops4 == ops3 + plb_path.ops
    IN  IF plb_path.kind # "Ok"
        THEN EntryFailure(plb_path.kind, ops4, plb_path.eof) ELSE
    LET flags == ReadU32s(f, rec.vals[5], 4)
        ops5 == ops4 + 1 + flags.ops
    IN  IF ~flags.ok THEN EntryFailure("IOError", ops5, flags.eof) ELSE
        [kind |-> "Ok",
         entry |-> Entry(entity_name.string, map_name.string, lua_path.string,
                         plb_path.string, flags.vals),
         ops |-> ops5, eof |-> FALSE]

(***************************************************************************)
(* new_from_file                                                           *)
(***************************************************************************)
\* Mutant: a short read ends the decode with the entries read so far.
FailureKeepsPartial(kind, partial) ==
    IF kind = "IOError" THEN <<"Ok", partial>> ELSE <<kind>>

\* What the call returns when a step fails with error `kind` after `partial`
\* entries were read: the `?` operator returns the error alone.
Failure(kind, partial) == <<kind>>

\* Mutant: only the first three bytes of the tag compared.
HeaderAcceptedByPrefix(header_buf) == SubSeq(header_buf, 1, 3) = SubSeq(Magic, 1, 3)

\* line 93
HeaderAccepted(header_buf) == header_buf = Magic

\* lines 90-95
DecodeHeader ==
    /\ pc = "encoded"
    /\ UNCHANGED last_write
    /\ IF Available(file, 0) < 4
       THEN /\ result' = Failure("IOError", <<>>)
            /\ overrun' = TRUE
            /\ pc' = "done"
            /\ pos' = 0
       ELSE IF ~HeaderAccepted(SubSeq(file, 1, 4))
       THEN /\ result' = <<"InvalidHeader", SubSeq(file, 1, 4)>>
            /\ pc' = "done"
            /\ pos' = 4
            /\ UNCHANGED overrun
       ELSE /\ pc' = "dec_content"
            /\ pos' = 4
            /\ UNCHANGED <<result, overrun>>
    /\ nops' = nops + 2
    /\ UNCHANGED <<file, corrupted, encvars, pointer_content_data, entry_count,
                   pointer_entry_list, all_pointer_entry, read_entries>>

\* lines 97-105
DecodeContent ==
    /\ pc = "dec_content"
    /\ UNCHANGED last_write
    /\ LET hdr == ReadU32s(file, pos, 2)
           content == ReadU32s(file, hdr.vals[1], 2)
       IN  IF ~hdr.ok
           THEN /\ result' = Failure("IOError", <<>>)
                /\ overrun' = hdr.eof
                /\ pc' = "done"
                /\ nops' = nops + hdr.ops
                /\ pos' = hdr.pos
                /\ UNCHANGED <<pointer_content_data, entry_count, pointer_entry_list,
                               all_pointer_entry, i>>
           ELSE IF ~content.ok
           THEN /\ result' = Failure("IOError", <<>>)
                /\ overrun' = content.eof
                /\ pc' = "done"
                /\ nops' = nops + hdr.ops + 1 + content.ops
                /\ pos' = content.pos
                /\ pointer_content_data' = hdr.vals[1]
                /\ UNCHANGED <<entry_count, pointer_entry_list, all_pointer_entry, i>>
           ELSE /\ pointer_content_data' = hdr.vals[1]
                /\ entry_count' = content.vals[1]
                /\ pointer_entry_list' = content.vals[2]
                /\ all_pointer_entry' = <<>>
                /\ i' = 0
                /\ pos' = content.vals[2]
                /\ nops' = nops + hdr.ops + 1 + content.ops + 1
                /\ pc' = "dec_table"
                /\ UNCHANGED <<result, overrun>>
    /\ UNCHANGED <<file, corrupted, entries, sir0_pointers, list_of_entries_pointer,
                   flags_pointer, utf16_string_to_write_set, utf8_string_to_write_set,
                   utf16_string_map, utf8_string_map, sir0_list_pointer, entries_pointer,
                   sir0_list_padded, pool_writes, placeholders, read_entries>>

\* lines 106-108: one slot of the entry-pointer table
DecodeTableSlot ==
    /\ pc = "dec_table"
    /\ UNCHANGED last_write
    /\ i < entry_count
    /\ LET slot == ReadU32s(file, pos, 1)
       IN  IF ~slot.ok
           THEN /\ result' = Failure("IOError", <<>>)
                /\ overrun' = slot.eof
                /\ pc' = "done"
                /\ UNCHANGED <<all_pointer_entry, i, pos>>
           ELSE /\ all_pointer_entry' = Append(all_pointer_entry, slot.vals[1])
                /\ i' = i + 1
                /\ pos' = slot.pos
                /\ UNCHANGED <<result, overrun, pc>>
    /\ nops' = nops + 1
    /\ UNCHANGED <<file, corrupted, entries, sir0_pointers, list_of_entries_pointer,
                   flags_pointer, utf16_string_to_write_set, utf8_string_to_write_set,
                   utf16_string_map, utf8_string_map, sir0_list_pointer, entries_pointer,
                   sir0_list_padded, pool_writes, placeholders, pointer_content_data,
                   entry_count, pointer_entry_list, read_entries>>

\* line 110
StartEntries ==
    /\ pc = "dec_table"
    /\ UNCHANGED last_write
    /\ i = entry_count
    /\ read_entries' = <<>>
    /\ i' = 0
    /\ pc' = "dec_entries"
    /\ UNCHANGED <<file, pos, corrupted, entries, sir0_pointers, list_of_entries_pointer,
                   flags_pointer, utf16_string_to_write_set, utf8_string_to_write_set,
                   utf16_string_map, utf8_string_map, sir0_list_pointer, entries_pointer,
                   sir0_list_padded, pool_writes, placeholders, pointer_content_data,
                   entry_count, pointer_entry_list, all_pointer_entry, result, nops,
                   overrun>>

\* lines 111-139: one entry
DecodeEntry ==
    /\ pc = "dec_entries"
    /\ UNCHANGED last_write
    /\ i < Len(all_pointer_entry)
    /\ LET r == ReadEntry(file, all_pointer_entry[i + 1])
       IN  /\ nops' = nops + r.ops
           /\ IF r.kind = "Ok"
              THEN /\ read_entries' = Append(read_entries, r.entry)
                   /\ i' = i + 1
                   /\ UNCHANGED <<result, overrun, pc>>
              ELSE /\ result' = Failure(r.kind, read_entries)
                   /\ overrun' = r.eof
                   /\ pc' = "done"
                   /\ UNCHANGED <<read_entries, i>>
    /\ UNCHANGED <<file, pos, corrupted, entries, sir0_pointers, list_of_entries_pointer,
                   flags_pointer, utf16_string_to_write_set, utf8_string_to_write_set,
                   utf16_string_map, utf8_string_map, sir0_list_pointer, entries_pointer,
                   sir0_list_padded, pool_writes, placeholders, pointer_content_data,
                   entry_count, pointer_entry_list, all_pointer_entry>>

\* lines 141-143
DecodeReturn ==
    /\ pc = "dec_entries"
    /\ UNCHANGED last_write
    /\ i = Len(all_pointer_entry)
    /\ result' = <<"Ok", read_entries>>
    /\ pc' = "done"
    /\ UNCHANGED <<file, pos, corrupted, encvars, pointer_content_data, entry_count,
                   pointer_entry_list, all_pointer_entry, read_entries, nops, overrun>>

Encode ==
    \/ WriteHeader
    \/ WritePointerSlot
    \/ RememberEntries
    \/ WriteEntryPlaceholder
    \/ StartFlags
    \/ WriteFlags
    \/ CollectStrings
    \/ WriteUtf16String
    \/ WriteUtf8String
    \/ MarkEndOfPool
    \/ PatchEntry
    \/ PatchTable
    \/ SeekEnd
    \/ WritePadding
    \/ WriteFooter
    \/ PatchHeader

Decode ==
    \/ DecodeHeader
    \/ DecodeContent
    \/ DecodeTableSlot
    \/ StartEntries
    \/ DecodeEntry
    \/ DecodeReturn

\* write_to_file on an empty stream, then new_from_file on its output
Next == Encode \/ Decode

Spec == Init /\ [][Next]_vars

\* the same, the stream possibly damaged in between
NextDamaged == Encode \/ Truncate \/ Poke \/ Decode

SpecDamaged == InitDamaged /\ [][NextDamaged]_vars
(***************************************************************************)
(* Properties.                                                             *)
(***************************************************************************)
Range(seq) == {seq[k] : k \in 1..Len(seq)}

NumEntries == Len(entries)

\* Where the layout of section 6 puts things, computed from the entry count alone.
SlotLocation(k) == 24 + (4 * (k - 1))
RecordLocation(k) == 24 + (4 * NumEntries) + (20 * (k - 1))
FieldLocation(k, j) == RecordLocation(k) + (4 * (j - 1))
PointerFieldLocations(header) ==
    header \cup {SlotLocation(k) : k \in 1..NumEntries}
           \cup {FieldLocation(k, j) : k \in 1..NumEntries, j \in 1..5}

NarrowStringsOf(e) == {e.entity_name, e.map_name}
WideStringsOf(e) == {e.lua_path, e.plb_path}
StringsOf(e) == NarrowStringsOf(e) \cup WideStringsOf(e)

NonEmptyNoNull(s) == Len(s) > 0 /\ \A k \in 1..Len(s) : s[k] # 0
Ascii(s) == \A k \in 1..Len(s) : s[k] < 128
Bmp(s) == \A k \in 1..Len(s) : s[k] < 65536

RoundTripInput ==
    \A k \in 1..NumEntries : \A s \in StringsOf(entries[k]) : NonEmptyNoNull(s)

SingleUnitInput ==
    \A k \in 1..NumEntries :
        /\ \A s \in NarrowStringsOf(entries[k]) : Ascii(s)
        /\ \A s \in WideStringsOf(entries[k]) : Bmp(s)

\* C1 as stated: whenever the four strings of every entry are non-empty and hold
\* no null code point, decoding the encoded stream returns the input list.
C1_RoundTripAnyCodePoint ==
    (pc = "done" /\ RoundTripInput) => result = <<"Ok", entries>>

\* C1 amended: the same, for lists whose narrow strings are ASCII and whose wide
\* strings lie in the Basic Multilingual Plane.
C1_RoundTripSingleUnit ==
    (pc = "done" /\ RoundTripInput /\ SingleUnitInput) => result = <<"Ok", entries>>

C1_Witness ==
    /\ pc = "done"
    /\ NumEntries = 2
    /\ entries[1] # entries[2]
    /\ SingleUnitInput
    /\ \E s \in WideStringsOf(entries[1]) : ~Ascii(s)
    /\ result = <<"Ok", entries>>

WritesOf(kind, s) ==
    {k \in 1..Len(pool_writes) : pool_writes[k][1] = kind /\ pool_writes[k][2] = s}

WrittenAt(kind, s) == pool_writes[CHOOSE k \in WritesOf(kind, s) : TRUE][3]

StoredAt(offset, bytes) == SubSeq(file, offset + 1, offset + Len(bytes)) = bytes

\* C2: whatever order the two sets are enumerated in, each distinct narrow string
\* and each distinct wide string is written to the pool once, with its terminator,
\* and every pointer field of every entry record holds the offset at which the
\* string of that field was written.
C2_StringDeduplication ==
    pc = "encoded" =>
        /\ \A s \in Utf8Strings(entries) :
             /\ Cardinality(WritesOf("utf8", s)) = 1
             /\ StoredAt(WrittenAt("utf8", s), AsBytes(s) \o <<0>>)
        /\ \A s \in Utf16Strings(entries) :
             /\ Cardinality(WritesOf("utf16", s)) = 1
             /\ StoredAt(WrittenAt("utf16", s), string_to_utf16(s) \o <<0, 0>>)
        /\ Len(pool_writes) =
               Cardinality(Utf8Strings(entries)) + Cardinality(Utf16Strings(entries))
        /\ \A k \in 1..NumEntries :
             /\ U32At(file, FieldLocation(k, 1)) = WrittenAt("utf8", entries[k].entity_name)
             /\ U32At(file, FieldLocation(k, 2)) = WrittenAt("utf8", entries[k].map_name)
             /\ U32At(file, FieldLocation(k, 3)) = WrittenAt("utf16", entries[k].lua_path)
             /\ U32At(file, FieldLocation(k, 4)) = WrittenAt("utf16", entries[k].plb_path)

\* two entries share a wide and a narrow string, and the set did not yield the
\* strings in their order of first occurrence
C2_Witness ==
    /\ pc = "encoded"
    /\ NumEntries = 2
    /\ entries[1].lua_path = entries[2].lua_path
    /\ entries[1].plb_path # entries[2].plb_path
    /\ entries[1].map_name = entries[2].entity_name
    /\ pool_writes[1][2] = entries[2].plb_path
    /\ U32At(file, FieldLocation(1, 3)) = U32At(file, FieldLocation(2, 3))

\* C3: one 16-byte flags block per entry, in input order; the flags-offset fields of
\* two distinct entries hold different offsets of blocks that do not overlap, also
\* when the two entries have the same flags.
C3_NoFlagSharing ==
    pc = "encoded" =>
        /\ Len(flags_pointer) = NumEntries
        /\ \A k \in 1..NumEntries :
             /\ U32At(file, FieldLocation(k, 5)) = flags_pointer[k]
             /\ StoredAt(flags_pointer[k], FlagsBytes(entries[k]))
        /\ \A k \in 1..NumEntries : \A l \in (k + 1)..NumEntries :
             U32At(file, FieldLocation(k, 5)) + 16 <= U32At(file, FieldLocation(l, 5))

C3_Witness ==
    /\ pc = "encoded"
    /\ NumEntries = 2
    /\ entries[1].flags = entries[2].flags
    /\ U32At(file, FieldLocation(1, 5)) # U32At(file, FieldLocation(2, 5))

PaddedEnd == 4 * ((sir0_list_pointer + 3) \div 4)

\* C4 as stated: after the encode the u32 at offset 4, which the decoder reads as
\* content_offset, holds the padded end-of-content offset.
C4_ContentOffsetPatched ==
    pc = "encoded" => U32At(file, 4) = sir0_list_padded

\* C4 amended: the padded end-of-content offset, recorded after the padding and
\* before the footer, is written over the u32 at offset 8 (the reserved second
\* header offset); the content-offset field at offset 4 keeps 16, which is what the
\* decoder reads and seeks to.
C4_ReservedOffsetPatched ==
    /\ pc = "encoded" =>
          /\ U32At(file, 8) = sir0_list_padded
          /\ sir0_list_padded = PaddedEnd
          /\ U32At(file, 4) = 16
    /\ (pc = "done" /\ result[1] = "Ok") => pointer_content_data = 16

C4_Witness ==
    /\ pc = "done"
    /\ result[1] = "Ok"
    /\ NumEntries = 2
    /\ sir0_list_padded > sir0_list_pointer
    /\ U32At(file, 8) = sir0_list_padded

\* C5 as stated: the list handed to the footer encoder holds the 2 + 6n locations
\* of the content-offset field, the entry-pointer-table-offset field, the n table
\* slots and the 5n record fields, and nothing else.
C5_RelocationListTwoPlusSixN ==
    pc = "patch_header" =>
        /\ Range(sir0_pointers) = PointerFieldLocations({4, 20})
        /\ Len(sir0_pointers) = 2 + (6 * NumEntries)

\* C5 amended: it holds 3 + 6n locations, in ascending order: those, and the
\* location 8 of the reserved second header offset.
C5_RelocationListThreePlusSixN ==
    pc = "patch_header" =>
        /\ Range(sir0_pointers) = PointerFieldLocations({4, 8, 20})
        /\ Len(sir0_pointers) = 3 + (6 * NumEntries)
        /\ \A k \in 1..(Len(sir0_pointers) - 1) : sir0_pointers[k] < sir0_pointers[k + 1]

C5_Witness ==
    /\ pc = "patch_header"
    /\ NumEntries = 2
    /\ Len(sir0_pointers) = 15
    /\ 8 \in Range(sir0_pointers)
\* C6: decoding a stream of at least 4 bytes whose first 4 bytes are not "SIR0"
\* fails with InvalidHeader carrying those 4 bytes, after one seek and one read of
\* 4 bytes and nothing more.
C6_HeaderRejection ==
    (pc = "done" /\ Len(file) >= 4 /\ SubSeq(file, 1, 4) # <<83, 73, 82, 48>>) =>
        /\ result = <<"InvalidHeader", SubSeq(file, 1, 4)>>
        /\ nops = 2
        /\ pos = 4

C6_Witness ==
    /\ pc = "done"
    /\ corrupted
    /\ NumEntries = 2
    /\ Len(file) >= 4
    /\ SubSeq(file, 1, 3) = <<83, 73, 82>>
    /\ result = <<"InvalidHeader", <<83, 73, 82, 127>>>>

\* C7: once a read has run past the end of the stream the decode has ended with
\* IOError and without a list, also when entries were decoded before.
C7_OutOfRangeFails ==
    overrun => (pc = "done" /\ result = <<"IOError">>)

\* the second entry's read ran past the end after the first was decoded
C7_Witness ==
    /\ overrun
    /\ Len(file) >= 4
    /\ SubSeq(file, 1, 4) = <<83, 73, 82, 48>>
    /\ entry_count = 2
    /\ Len(read_entries) = 1
    /\ read_entries[1] = entries[1]
    /\ result = <<"IOError">>

\* C8: the footer starts at a multiple of 4, at most 3 zero bytes after the end of
\* the string pool, and the padding loop never runs a fourth time.
C8_Alignment ==
    /\ pc = "pad" => (sir0_list_pointer <= pos /\ pos <= sir0_list_pointer + 3)
    /\ pc \in {"patch_header", "encoded"} =>
          /\ sir0_list_padded % 4 = 0
          /\ sir0_list_pointer <= sir0_list_padded
          /\ sir0_list_padded <= sir0_list_pointer + 3
          /\ \A k \in (sir0_list_pointer + 1)..sir0_list_padded : file[k] = 0
          /\ Len(file) > sir0_list_padded
          /\ \A k \in (sir0_list_padded + 1)..Len(file) : file[k] \in FooterFill

C8_Witness ==
    /\ pc = "patch_header"
    /\ sir0_list_padded = sir0_list_pointer + 3

BackPatching == pc \in {"patch_entries", "patch_header"}
AfterPool == pc \in {"patch_entries", "seek_end", "pad", "patch_header"}

\* C10: a write of the back-patching steps (entry records, entry-pointer table,
\* header field) covers placeholder bytes only and leaves the length of the stream
\* alone; no step after the string pool is complete changes a byte before the end
\* of the pool that is not a placeholder; slot i of the table receives the position
\* of record i.
C10_BackPatchingFrame ==
    [][/\ (BackPatching /\ pc' # pc /\ pc' = "seek_end") =>
             \A k \in 1..NumEntries : U32At(file', SlotLocation(k)) = RecordLocation(k)
       /\ BackPatching =>
             /\ last_write' \subseteq placeholders
             /\ Len(file') = Len(file)
             /\ \A k \in 1..Len(file) : file'[k] # file[k] => (k - 1) \in last_write'
       /\ AfterPool =>
             /\ Len(file') >= Len(file)
             /\ \A k \in 1..sir0_list_pointer :
                  (k - 1) \notin placeholders => file'[k] = file[k]]_vars

C10_Witness ==
    /\ pc = "seek_end"
    /\ NumEntries = 2
    /\ U32At(file, SlotLocation(2)) = RecordLocation(2)
    /\ last_write = Offsets(24, 8)
====
